---- MODULE Spec2Model ----
(***************************************************************************)
(* Per-frame primitive preparation of gaussian_renderer/__init__.py:       *)
(* render, render_no_train and deform_gs.                                  *)
(*                                                                         *)
(* A tensor is a sequence of rows.  A row of a per-primitive attribute is  *)
(* a record carrying the value and three history fields: def counts the    *)
(* deformations the row went through, act the activations, and (src, id)   *)
(* name the primitive the row was created for.  t is the time row the      *)
(* deformation used.                                                       *)
(***************************************************************************)
EXTENDS Integers, Sequences, FiniteSets, TLC

VARIABLES pc,                \* the GaussianModel handed to the call
          fn,                \* the entry point that ran ("idle" before the call)
          args,              \* its arguments
          sel,               \* what the stage selection was given and produced
          filtered,          \* render_no_train: the scene batch after the spatial filter
          deformation_calls, \* invocations of pc._deformation, in order
          eval_sh_calls,     \* invocations of eval_sh
          rasterizer_calls,  \* invocations of the GaussianRasterizer, in order
          ret                \* how the call ended

vars == <<pc, fn, args, sel, filtered, deformation_calls, eval_sh_calls, rasterizer_calls, ret>>

\* Largest number of scene primitives and of camera markers.
MaxN == 2
MaxM == 2

\* ---------------------------------------------------------------- values

\* An optional tensor: None, or a tensor.
None == [some |-> FALSE, val |-> <<>>]
Some(v) == [some |-> TRUE, val |-> v]

\* An optional colour tensor (override_color, colors_precomp).
NoColor == [some |-> FALSE, form |-> "none", tag |-> 0]
OverrideColors == {[some |-> TRUE, form |-> "override", tag |-> 1]}

\* An absent marker descriptor (cams_pc=None).
NoCams == [present |-> FALSE, xyzs |-> <<>>, qs |-> <<>>, scale |-> <<0, 0, 0>>,
           show_cameras |-> FALSE, show_scene |-> FALSE]

Row(src, id, kind, raw) ==
    [src |-> src, id |-> id, kind |-> kind, raw |-> raw, def |-> 0, act |-> 0, t |-> -1]

\* Stage strings, as sequences of characters.
coarse == <<"c", "o", "a", "r", "s", "e">>
fine == <<"f", "i", "n", "e">>
Stages == { coarse, fine,
            <<"c", "o", "a", "r", "s", "e", "_", "f", "i", "n", "e">>,
            <<"f", "i", "n", "e", "c", "o", "a", "r", "s", "e">>,
            <<"x", "f", "i", "n", "e">>,
            <<"f", "i", "n">>,
            <<"w", "a", "r", "m">>,
            <<>> }

\* Python's `sub in s` on strings.
Contains(sub, s) ==
    \E i \in 1..(Len(s) - Len(sub) + 1) : SubSeq(s, i, i + Len(sub) - 1) = sub

\* World positions, frame times, preview radii, marker scales.
Positions == { <<0, 0, 0>>, <<2, 0, 0>>, <<3, 4, 0>> }
Times == {0, 1}
Radii == {-3, 0, 3, 5}
MarkerPositions == { <<1, 0, 0>> }
MarkerScales == { <<1, 2, 3>> }
SHDegrees == {0, 1}

\* ------------------------------------------------------- the GaussianModel

\* (max_sh_degree + 1) ** 2 coefficient rows per primitive.
Coeffs(degree, v) == [c \in 1..((degree + 1) * (degree + 1)) |-> <<v, v, v>>]

GaussianModels ==
    UNION { { [ _xyz      |-> [i \in 1..n |-> Row("scene", i, "xyz", p[i])],
                _scaling  |-> [i \in 1..n |-> Row("scene", i, "scale", <<i, i, i>>)],
                _rotation |-> [i \in 1..n |-> Row("scene", i, "rot", <<i, 0, 0, 0>>)],
                _opacity  |-> [i \in 1..n |-> Row("scene", i, "opacity", <<i>>)],
                features  |-> [i \in 1..n |-> Row("scene", i, "shs", Coeffs(d, i))],
                max_sh_degree |-> d ]
              : p \in [1..n -> Positions], d \in SHDegrees }
            : n \in 0..MaxN }

NoSel == [status |-> "none",
          in  |-> [means3D |-> <<>>, scales |-> None, rotations |-> None,
                   opacity |-> <<>>, shs |-> <<>>],
          out |-> [means3D |-> <<>>, scales |-> None, rotations |-> None,
                   opacity |-> <<>>, shs |-> <<>>]]

NoBatch == [means3D |-> <<>>, means2D |-> [obj |-> "", rows |-> <<>>], shs |-> <<>>,
            opacity |-> <<>>, scales |-> <<>>, rotations |-> <<>>]

NoRet == [kind |-> "none", err |-> "", viewspace_points |-> [obj |-> "", rows |-> <<>>],
          visibility_filter |-> <<>>, radii |-> <<>>]

NoArgs == [stage |-> <<>>, cam_type |-> "", time |-> 0, compute_cov3D_python |-> FALSE,
           convert_SHs_python |-> FALSE, override_color |-> NoColor, cams_pc |-> NoCams,
           show_radius |-> 0]

Init ==
    /\ pc \in GaussianModels
    /\ fn = "idle"
    /\ args = NoArgs
    /\ sel = NoSel
    /\ filtered = NoBatch
    /\ deformation_calls = <<>>
    /\ eval_sh_calls = 0
    /\ rasterizer_calls = <<>>
    /\ ret = NoRet

\* -------------------------------------------------- external collaborators

\* One row through the deformation network: the value moves with the time row
\* it is paired with (a position is shifted along x by the time).
DeformRow(r, t) ==
    [r EXCEPT !.def = @ + 1, !.t = t,
              !.raw = IF r.kind = "xyz" THEN <<@[1] + t, @[2], @[3]>> ELSE @]

TimeAt(time, i) == IF i <= Len(time) THEN time[i][1] ELSE -1

DeformRows(x, time) == [i \in 1..Len(x) |-> DeformRow(x[i], TimeAt(time, i))]

DeformOpt(x, time) == IF x.some THEN Some(DeformRows(x.val, time)) ELSE None

\* pc._deformation(means3D, scales, rotations, opacity, shs, time): same shapes
\* out as in.
Deformation(means3D, scales, rotations, opacity, shs, time) ==
    [means3D   |-> DeformRows(means3D, time),
     scales    |-> DeformOpt(scales, time),
     rotations |-> DeformOpt(rotations, time),
     opacity   |-> DeformRows(opacity, time),
     shs       |-> DeformRows(shs, time)]

\* An activation function (exp, normalize, sigmoid) applied to an optional
\* tensor: every row is activated once more; handed None, it raises.
Activation(x) ==
    IF x.some
    THEN [raised |-> FALSE,
          out |-> Some([i \in 1..Len(x.val) |-> [x.val[i] EXCEPT !.act = @ + 1]])]
    ELSE [raised |-> TRUE, out |-> None]

scaling_activation(x) == Activation(x)
rotation_activation(x) == Activation(x)
opacity_activation(x) == Activation(x)

\* pc.get_covariance(scaling_modifier): one covariance row per primitive,
\* built from the model's scaling and rotation.
get_covariance ==
    [i \in 1..Len(pc._xyz) |-> Row("scene", i, "cov", <<pc._scaling[i].raw, pc._rotation[i].raw>>)]

\* What the rasterizer may answer to an invocation: a radius per row of
\* means3D, or, when it is handed two forms of colour or of geometry at once,
\* possibly an exception.
RadiiPatterns == {0, 1}
Rasterizer(call) ==
    { [ok |-> TRUE, radii |-> [i \in 1..Len(call.means3D) |-> (i + k) % 2]]
        : k \in RadiiPatterns }
    \cup
    ( IF \/ (call.shs.some /\ call.colors_precomp.some)
         \/ (call.cov3D_precomp.some /\ (call.scales.some \/ call.rotations.some))
      THEN { [ok |-> FALSE, radii |-> <<>>] }
      ELSE {} )

\* ------------------------------------------------------------ shared steps

\* torch.zeros_like(pc.get_xyz, requires_grad=True) + 0
screenspace_points ==
    [obj |-> "screenspace_points",
     rows |-> [i \in 1..Len(pc._xyz) |-> Row("scene", i, "anchor", <<0, 0, 0>>)]]

\* torch.tensor(t).repeat(n, 1)
Repeat_OneRow(t, n) == << <<t>> >>

Repeat(t, n) == [i \in 1..n |-> <<t>>]

\* The stage selection: the if / elif / else on `stage`.
StageSelect_FineFirst(stage, means3D, scales, rotations, opacity, shs, time) ==
    LET given == [means3D |-> means3D, scales |-> scales, rotations |-> rotations,
                  opacity |-> opacity, shs |-> shs]
    IN  IF Contains(fine, stage)
        THEN [status |-> "ok", in |-> given,
              out |-> Deformation(means3D, scales, rotations, opacity, shs, time),
              calls |-> << [means3D |-> means3D, scales |-> scales, rotations |-> rotations,
                            opacity |-> opacity, shs |-> shs, time |-> time] >>]
        ELSE IF Contains(coarse, stage)
        THEN [status |-> "ok", in |-> given, out |-> given, calls |-> <<>>]
        ELSE [status |-> "raise", in |-> given, out |-> NoSel.out, calls |-> <<>>]

StageSelect_DefaultCoarse(stage, means3D, scales, rotations, opacity, shs, time) ==
    LET given == [means3D |-> means3D, scales |-> scales, rotations |-> rotations,
                  opacity |-> opacity, shs |-> shs]
    IN  IF Contains(fine, stage) /\ ~Contains(coarse, stage)
        THEN [status |-> "ok", in |-> given,
              out |-> Deformation(means3D, scales, rotations, opacity, shs, time),
              calls |-> << [means3D |-> means3D, scales |-> scales, rotations |-> rotations,
                            opacity |-> opacity, shs |-> shs, time |-> time] >>]
        ELSE [status |-> "ok", in |-> given, out |-> given, calls |-> <<>>]

StageSelect(stage, means3D, scales, rotations, opacity, shs, time) ==
    LET given == [means3D |-> means3D, scales |-> scales, rotations |-> rotations,
                  opacity |-> opacity, shs |-> shs]
    IN  IF Contains(coarse, stage)
        THEN [status |-> "ok", in |-> given, out |-> given, calls |-> <<>>]
        ELSE IF Contains(fine, stage)
        THEN [status |-> "ok", in |-> given,
              out |-> Deformation(means3D, scales, rotations, opacity, shs, time),
              calls |-> << [means3D |-> means3D, scales |-> scales, rotations |-> rotations,
                            opacity |-> opacity, shs |-> shs, time |-> time] >>]
        ELSE [status |-> "raise", in |-> given, out |-> NoSel.out, calls |-> <<>>]

\* Lines 93-95 and 203-205: scales_final = pc.scaling_activation(scales_final),
\* then the rotation, then the opacity.  An exception of an activation ends
\* the call.
Recover_SkipOpacity(scales_final, rotations_final, opacity_final) ==
    LET sc == scaling_activation(scales_final)
        ro == rotation_activation(rotations_final)
    IN  IF sc.raised \/ ro.raised
        THEN [ok |-> FALSE, scales |-> None, rotations |-> None, opacity |-> <<>>]
        ELSE [ok |-> TRUE, scales |-> sc.out, rotations |-> ro.out,
              opacity |-> opacity_final]

Recover(scales_final, rotations_final, opacity_final) ==
    LET sc == scaling_activation(scales_final)
        ro == rotation_activation(rotations_final)
        op == opacity_activation(Some(opacity_final))
    IN  IF sc.raised \/ ro.raised \/ op.raised
        THEN [ok |-> FALSE, scales |-> None, rotations |-> None, opacity |-> <<>>]
        ELSE [ok |-> TRUE, scales |-> sc.out, rotations |-> ro.out,
              opacity |-> op.out.val]

\* The Render Output built from the rasterizer's answer.
Package(o, anchor) ==
    IF o.ok
    THEN [kind |-> "return", err |-> "", viewspace_points |-> anchor,
          visibility_filter |-> [i \in 1..Len(o.radii) |-> o.radii[i] > 0],
          radii |-> o.radii]
    ELSE [NoRet EXCEPT !.kind = "raise", !.err = "Exception"]

Raise(err) == [NoRet EXCEPT !.kind = "raise", !.err = err]

\* ------------------------------------------------------------------ render

\* Lines 101-113: the colour handed to the rasterizer as colors_precomp, and
\* the number of eval_sh calls made to get it.
ColorResolve(override_color, convert_SHs_python) ==
    IF ~override_color.some
    THEN IF convert_SHs_python
         THEN [colors_precomp |-> [some |-> TRUE, form |-> "evaluated", tag |-> 0],
               evals |-> 1]
         ELSE [colors_precomp |-> NoColor, evals |-> 0]
    ELSE [colors_precomp |-> override_color, evals |-> 0]

RenderArgs ==
    { [NoArgs EXCEPT !.stage = st, !.cam_type = ct, !.time = t,
                     !.compute_cov3D_python = cov, !.convert_SHs_python = conv,
                     !.override_color = oc]
        : st \in Stages, ct \in {"None", "PanopticSports"}, t \in Times,
          cov \in BOOLEAN, conv \in BOOLEAN, oc \in {NoColor} \cup OverrideColors }

render(a) ==
    /\ fn = "idle"
    /\ fn' = "render"
    /\ args' = a
    /\ pc' = pc
    /\ filtered' = filtered
    /\ LET means3D == pc._xyz
           \* both camera kinds carry the frame time (lines 54 and 57)
           time == Repeat(a.time, Len(means3D))
           means2D == screenspace_points
           opacity == pc._opacity
           shs == pc.features
           cov3D_precomp == IF a.compute_cov3D_python THEN Some(get_covariance) ELSE None
           scales == IF a.compute_cov3D_python THEN None ELSE Some(pc._scaling)
           rotations == IF a.compute_cov3D_python THEN None ELSE Some(pc._rotation)
           s == StageSelect(a.stage, means3D, scales, rotations, opacity, shs, time)
           r == Recover(s.out.scales, s.out.rotations, s.out.opacity)
           col == ColorResolve(a.override_color, a.convert_SHs_python)
           call == [means3D |-> s.out.means3D, means2D |-> means2D,
                    shs |-> Some(s.out.shs), colors_precomp |-> col.colors_precomp,
                    opacities |-> r.opacity, scales |-> r.scales,
                    rotations |-> r.rotations, cov3D_precomp |-> cov3D_precomp]
       IN  /\ sel' = [status |-> s.status, in |-> s.in, out |-> s.out]
           /\ deformation_calls' = s.calls
           /\ IF s.status = "raise"
              THEN /\ ret' = Raise("NotImplementedError")
                   /\ UNCHANGED <<eval_sh_calls, rasterizer_calls>>
              ELSE IF ~r.ok
              THEN /\ ret' = Raise("TypeError")
                   /\ UNCHANGED <<eval_sh_calls, rasterizer_calls>>
              ELSE /\ eval_sh_calls' = col.evals
                   /\ rasterizer_calls' = <<call>>
                   /\ \E o \in Rasterizer(call) : ret' = Package(o, screenspace_points)

\* -------------------------------------------------------- render_no_train

\* torch.norm(xyz) < show_radius, on integer coordinates.
InsideRadius_OrOn(xyz, show_radius) ==
    /\ show_radius >= 0
    /\ xyz[1] * xyz[1] + xyz[2] * xyz[2] + xyz[3] * xyz[3] <= show_radius * show_radius

InsideRadius(xyz, show_radius) ==
    /\ show_radius > 0
    /\ xyz[1] * xyz[1] + xyz[2] * xyz[2] + xyz[3] * xyz[3] < show_radius * show_radius

\* mask = (distances < show_radius)
SpatialMask(means3D_final, show_radius) ==
    [i \in 1..Len(means3D_final) |-> InsideRadius(means3D_final[i].raw, show_radius)]

\* x[mask]: the rows whose mask entry is true, in order.
Index(x, mask) ==
    LET F[i \in 0..Len(x)] ==
            IF i = 0 THEN <<>>
            ELSE IF i <= Len(mask) /\ mask[i] THEN Append(F[i - 1], x[i]) ELSE F[i - 1]
    IN  F[Len(x)]

\* Lines 216-221.
SpatialFilter_AnchorUnmasked(b, mask) ==
    [means3D   |-> Index(b.means3D, mask),
     means2D   |-> b.means2D,
     shs       |-> Index(b.shs, mask),
     opacity   |-> Index(b.opacity, mask),
     scales    |-> Index(b.scales, mask),
     rotations |-> Index(b.rotations, mask)]

SpatialFilter(b, mask) ==
    [means3D   |-> Index(b.means3D, mask),
     means2D   |-> [obj |-> "means2D[mask]", rows |-> Index(b.means2D.rows, mask)],
     shs       |-> Index(b.shs, mask),
     opacity   |-> Index(b.opacity, mask),
     scales    |-> Index(b.scales, mask),
     rotations |-> Index(b.rotations, mask)]

\* Lines 228-245: the marker batch built from the descriptor.  width is
\* shs_final.shape[1], the number of coefficient rows per primitive.
MarkerSet(cams_pc, width) ==
    LET xyzs == cams_pc.xyzs
        M == Len(xyzs)
    IN  [means3D   |-> xyzs,
         means2D   |-> [obj |-> "means2D_",
                        rows |-> [j \in 1..M |-> Row("marker", j, "anchor", <<0, 0, 0>>)]],
         shs       |-> [j \in 1..M |->
                          Row("marker", j, "shs", [c \in 1..width |-> <<0, 0, 0>>])],
         opacity   |-> [j \in 1..M |-> Row("marker", j, "opacity", <<1>>)],
         scales    |-> [j \in 1..M |->
                          Row("marker", j, "scale",
                              <<0 + cams_pc.scale[1], 0 + cams_pc.scale[2],
                                0 + cams_pc.scale[3]>>)],
         rotations |-> cams_pc.qs]

\* Lines 225-261.
Compose_MarkersFirst(b, cams_pc, width) ==
    IF cams_pc.present /\ cams_pc.show_cameras
    THEN LET m == MarkerSet(cams_pc, width)
         IN  IF cams_pc.show_scene
             THEN [means3D   |-> m.means3D \o b.means3D,
                   means2D   |-> [obj |-> "cat", rows |-> m.means2D.rows \o b.means2D.rows],
                   shs       |-> m.shs \o b.shs,
                   opacity   |-> m.opacity \o b.opacity,
                   scales    |-> m.scales \o b.scales,
                   rotations |-> m.rotations \o b.rotations]
             ELSE m
    ELSE b

Compose(b, cams_pc, width) ==
    IF cams_pc.present /\ cams_pc.show_cameras
    THEN LET m == MarkerSet(cams_pc, width)
         IN  IF cams_pc.show_scene
             THEN [means3D   |-> b.means3D \o m.means3D,
                   means2D   |-> [obj |-> "cat", rows |-> b.means2D.rows \o m.means2D.rows],
                   shs       |-> b.shs \o m.shs,
                   opacity   |-> b.opacity \o m.opacity,
                   scales    |-> b.scales \o m.scales,
                   rotations |-> b.rotations \o m.rotations]
             ELSE m
    ELSE b

CamsPcs ==
    {NoCams} \cup
    UNION { { [present |-> TRUE,
               xyzs  |-> [j \in 1..m |-> Row("marker", j, "xyz", p[j])],
               qs    |-> [j \in 1..m |-> Row("marker", j, "rot", <<1, 0, 0, 0>>)],
               scale |-> sc, show_cameras |-> c, show_scene |-> sc2]
              : p \in [1..m -> MarkerPositions], sc \in MarkerScales,
                c \in BOOLEAN, sc2 \in BOOLEAN }
            : m \in 0..MaxM }

RenderNoTrainArgs ==
    { [NoArgs EXCEPT !.stage = st, !.cam_type = "None", !.time = t,
                     !.cams_pc = cp, !.show_radius = sr]
        : st \in Stages, t \in Times, cp \in CamsPcs, sr \in Radii }

render_no_train(a) ==
    /\ fn = "idle"
    /\ fn' = "render_no_train"
    /\ args' = a
    /\ pc' = pc
    /\ eval_sh_calls' = eval_sh_calls
    /\ LET means3D == pc._xyz
           time == Repeat(a.time, Len(means3D))
           s == StageSelect(a.stage, means3D, Some(pc._scaling), Some(pc._rotation),
                            pc._opacity, pc.features, time)
           r == Recover(s.out.scales, s.out.rotations, s.out.opacity)
           mask == SpatialMask(s.out.means3D, a.show_radius)
           kept == SpatialFilter([means3D |-> s.out.means3D, means2D |-> screenspace_points,
                                  shs |-> s.out.shs, opacity |-> r.opacity,
                                  scales |-> r.scales.val, rotations |-> r.rotations.val],
                                 mask)
           b == Compose(kept, a.cams_pc, (pc.max_sh_degree + 1) * (pc.max_sh_degree + 1))
           call == [means3D |-> b.means3D, means2D |-> b.means2D,
                    shs |-> Some(b.shs), colors_precomp |-> NoColor,
                    opacities |-> b.opacity, scales |-> Some(b.scales),
                    rotations |-> Some(b.rotations), cov3D_precomp |-> None]
       IN  /\ sel' = [status |-> s.status, in |-> s.in, out |-> s.out]
           /\ deformation_calls' = s.calls
           /\ IF s.status = "raise"
              THEN /\ ret' = Raise("NotImplementedError")
                   /\ UNCHANGED <<filtered, rasterizer_calls>>
              ELSE IF ~r.ok
              THEN /\ ret' = Raise("TypeError")
                   /\ UNCHANGED <<filtered, rasterizer_calls>>
              ELSE /\ filtered' = kept
                   /\ rasterizer_calls' = <<call>>
                   /\ \E o \in Rasterizer(call) : ret' = Package(o, screenspace_points)

\* --------------------------------------------------------------- deform_gs

DeformGsArgs ==
    { [NoArgs EXCEPT !.stage = st, !.time = t] : st \in Stages, t \in Times }

deform_gs(a) ==
    /\ fn = "idle"
    /\ fn' = "deform_gs"
    /\ args' = a
    /\ pc' = pc
    /\ UNCHANGED <<filtered, eval_sh_calls, rasterizer_calls>>
    /\ LET means3D == pc._xyz
           time == Repeat(a.time, Len(means3D))
           s == StageSelect(a.stage, means3D, Some(pc._scaling), Some(pc._rotation),
                            pc._opacity, pc.features, time)
       IN  /\ sel' = [status |-> s.status, in |-> s.in, out |-> s.out]
           /\ deformation_calls' = s.calls
           /\ ret' = IF s.status = "raise"
                     THEN Raise("NotImplementedError")
                     ELSE [NoRet EXCEPT !.kind = "return"]

Next ==
    \/ \E a \in RenderArgs : render(a)
    \/ \E a \in RenderNoTrainArgs : render_no_train(a)
    \/ \E a \in DeformGsArgs : deform_gs(a)

Spec == Init /\ [][Next]_vars

\* ------------------------------------------------------------------ claims

Entered == fn \in {"render", "render_no_train", "deform_gs"}

Rasterized == Len(rasterizer_calls) > 0

\* C1: with "coarse" in the stage string, the stage selection of render,
\* render_no_train and deform_gs hands on exactly what it was given (the model's
\* positions, raw opacities and colour coefficients, and its raw scales and
\* rotations wherever these were handed in), and pc._deformation is not called.
C1_CoarseIsIdentity ==
    (Entered /\ Contains(coarse, args.stage)) =>
        /\ sel.status = "ok"
        /\ sel.out = sel.in
        /\ sel.out.means3D = pc._xyz
        /\ sel.out.opacity = pc._opacity
        /\ sel.out.shs = pc.features
        /\ (sel.out.scales.some => sel.out.scales.val = pc._scaling)
        /\ (sel.out.rotations.some => sel.out.rotations.val = pc._rotation)
        /\ (fn = "render" /\ args.compute_cov3D_python) = ~sel.out.scales.some
        /\ deformation_calls = <<>>

C1_Witness ==
    /\ fn = "render_no_train"
    /\ Contains(coarse, args.stage) /\ Contains(fine, args.stage)
    /\ Len(sel.out.means3D) >= 2
    /\ args.time = 1
    /\ Rasterized

\* C2 as claimed: with "fine" anywhere in the stage string, the attributes
\* handed on are the output of pc._deformation, called exactly once on all N
\* primitives with N time rows, each the frame's time.
C2_Original ==
    (Entered /\ Contains(fine, args.stage)) =>
        /\ sel.status = "ok"
        /\ Len(deformation_calls) = 1
        /\ deformation_calls[1].means3D = pc._xyz
        /\ deformation_calls[1].time = [i \in 1..Len(pc._xyz) |-> <<args.time>>]

\* C2 amended: the same, for a stage string that contains "fine" and does not
\* contain "coarse".
C2_FineWithoutCoarseDeforms ==
    (Entered /\ Contains(fine, args.stage) /\ ~Contains(coarse, args.stage)) =>
        /\ sel.status = "ok"
        /\ Len(deformation_calls) = 1
        /\ LET d == deformation_calls[1]
           IN  /\ d.means3D = pc._xyz
               /\ d.opacity = pc._opacity
               /\ d.shs = pc.features
               /\ d.time = [i \in 1..Len(pc._xyz) |-> <<args.time>>]
               /\ sel.out = Deformation(d.means3D, d.scales, d.rotations, d.opacity,
                                        d.shs, d.time)
        /\ \A i \in 1..Len(sel.out.means3D) :
               sel.out.means3D[i].def = 1 /\ sel.out.means3D[i].t = args.time

C2_Witness ==
    /\ fn = "render"
    /\ Contains(fine, args.stage) /\ ~Contains(coarse, args.stage)
    /\ args.stage # fine
    /\ Len(deformation_calls) = 1
    /\ Len(deformation_calls[1].time) >= 2
    /\ args.time = 1
    /\ ret.kind = "return"

\* C3: with neither "coarse" nor "fine" in the stage string, each entry point
\* ends in NotImplementedError, having called neither pc._deformation nor the
\* rasterizer, and returns nothing.
C3_UnsupportedStageRaises ==
    (Entered /\ ~Contains(coarse, args.stage) /\ ~Contains(fine, args.stage)) =>
        /\ ret.kind = "raise"
        /\ ret.err = "NotImplementedError"
        /\ deformation_calls = <<>>
        /\ rasterizer_calls = <<>>
        /\ eval_sh_calls = 0

C3_Witness ==
    /\ fn = "render_no_train"
    /\ Len(args.stage) = 3
    /\ ~Contains(fine, args.stage)
    /\ Len(pc._xyz) >= 1
    /\ args.cams_pc.present /\ args.cams_pc.show_cameras
    /\ ret.err = "NotImplementedError"

\* The marker rows a descriptor stands for.
IsMarkerBatch(b, cams_pc) ==
    LET M == Len(cams_pc.xyzs)
    IN  /\ b.means3D = cams_pc.xyzs
        /\ b.rotations.val = cams_pc.qs
        /\ Len(b.means2D.rows) = M /\ Len(b.opacities) = M
        /\ Len(b.scales.val) = M /\ Len(b.shs.val) = M
        /\ \A j \in 1..M :
              /\ b.opacities[j].raw = <<1>> /\ b.opacities[j].act = 0
              /\ b.scales.val[j].raw = cams_pc.scale /\ b.scales.val[j].act = 0
              /\ Len(b.shs.val[j].raw) = (pc.max_sh_degree + 1) * (pc.max_sh_degree + 1)
              /\ \A c \in 1..Len(b.shs.val[j].raw) : b.shs.val[j].raw[c] = <<0, 0, 0>>
              /\ b.means2D.rows[j].raw = <<0, 0, 0>>

\* Rows from..to of every array of a rasterizer invocation.
Slice(c, from, to) ==
    [means3D |-> SubSeq(c.means3D, from, to),
     means2D |-> [obj |-> "", rows |-> SubSeq(c.means2D.rows, from, to)],
     shs |-> Some(SubSeq(c.shs.val, from, to)),
     opacities |-> SubSeq(c.opacities, from, to),
     scales |-> Some(SubSeq(c.scales.val, from, to)),
     rotations |-> Some(SubSeq(c.rotations.val, from, to))]

IsSceneBatch(b) ==
    /\ b.means3D = filtered.means3D
    /\ b.means2D.rows = filtered.means2D.rows
    /\ b.shs.val = filtered.shs
    /\ b.opacities = filtered.opacity
    /\ b.scales.val = filtered.scales
    /\ b.rotations.val = filtered.rotations

\* C4: render_no_train hands the rasterizer the S filtered scene primitives
\* alone when the marker descriptor is absent or show_cameras is false; the S
\* scene primitives in order followed by the M markers when show_cameras and
\* show_scene are true; the M markers alone when show_cameras is true and
\* show_scene false.  Marker rows have opacity 1, the descriptor's scale and
\* all-zero colour coefficients.
C4_Composition ==
    (fn = "render_no_train" /\ Rasterized) =>
        LET c == rasterizer_calls[1]
            cp == args.cams_pc
            S == Len(filtered.means3D)
            M == Len(cp.xyzs)
            n == Len(c.means3D)
        IN  IF ~cp.present \/ ~cp.show_cameras
            THEN n = S /\ IsSceneBatch(c)
            ELSE IF cp.show_scene
            THEN /\ n = S + M
                 /\ IsSceneBatch(Slice(c, 1, S))
                 /\ IsMarkerBatch(Slice(c, S + 1, n), cp)
            ELSE n = M /\ IsMarkerBatch(c, cp)

C4_Witness ==
    /\ fn = "render_no_train" /\ Rasterized
    /\ args.cams_pc.present /\ args.cams_pc.show_cameras /\ args.cams_pc.show_scene
    /\ Len(filtered.means3D) >= 2
    /\ Len(args.cams_pc.xyzs) >= 2
    /\ Len(rasterizer_calls[1].means3D) >= 4

\* The rows of x whose position, after the stage selection, lies strictly
\* inside show_radius; positions are sel.out.means3D.
KeptRows(x) ==
    LET p == sel.out.means3D
        r == args.show_radius
        in(i) == r > 0 /\ p[i].raw[1] * p[i].raw[1] + p[i].raw[2] * p[i].raw[2]
                          + p[i].raw[3] * p[i].raw[3] < r * r
        F[i \in 0..Len(x)] ==
            IF i = 0 THEN <<>> ELSE IF in(i) THEN Append(F[i - 1], x[i]) ELSE F[i - 1]
    IN  F[Len(x)]

\* C5: the spatial filter of render_no_train keeps a primitive exactly when the
\* norm of its final position is strictly less than show_radius, and keeps the
\* same rows in the same order in positions, gradient anchor, colour
\* coefficients, opacity, scale and rotation.
C5_SpatialFilter ==
    (fn = "render_no_train" /\ Rasterized) =>
        /\ filtered.means3D = KeptRows(sel.out.means3D)
        /\ filtered.shs = KeptRows(sel.out.shs)
        /\ Len(filtered.means2D.rows) = Len(filtered.means3D)
        /\ Len(filtered.opacity) = Len(filtered.means3D)
        /\ Len(filtered.scales) = Len(filtered.means3D)
        /\ Len(filtered.rotations) = Len(filtered.means3D)
        /\ \A k \in 1..Len(filtered.means3D) :
              LET i == filtered.means3D[k].id
              IN  /\ filtered.means2D.rows[k].id = i
                  /\ filtered.shs[k].id = i
                  /\ filtered.opacity[k].id = i /\ filtered.opacity[k].kind = "opacity"
                  /\ filtered.scales[k].id = i /\ filtered.scales[k].kind = "scale"
                  /\ filtered.rotations[k].id = i /\ filtered.rotations[k].kind = "rot"
                  /\ filtered.opacity[k].raw = pc._opacity[i].raw
                  /\ filtered.scales[k].raw = pc._scaling[i].raw
                  /\ filtered.rotations[k].raw = pc._rotation[i].raw

\* A primitive is moved onto the sphere by the deformation and removed, while
\* the other one stays.
C5_Witness ==
    /\ fn = "render_no_train" /\ Rasterized
    /\ Len(sel.out.means3D) = 2
    /\ Len(filtered.means3D) = 1
    /\ filtered.means3D[1].id = 2
    /\ sel.out.means3D[1].raw = <<3, 0, 0>>
    /\ args.show_radius = 3

\* C6 as claimed: in render, with a supported stage, compute_cov3D_python makes
\* the rasterizer receive the covariance and neither scale nor rotation;
\* otherwise it receives scale and rotation and no covariance.
C6_Original ==
    (fn = "render" /\ sel.status = "ok") =>
        /\ Len(rasterizer_calls) = 1
        /\ LET c == rasterizer_calls[1]
           IN  IF args.compute_cov3D_python
               THEN c.cov3D_precomp.some /\ ~c.scales.some /\ ~c.rotations.some
               ELSE ~c.cov3D_precomp.some /\ c.scales.some /\ c.rotations.some

\* C7 as claimed: every rasterizer invocation of render carries colour in one
\* form: the override verbatim without eval_sh, else the evaluated colour in
\* convert-in-pipeline mode, else the SH coefficients alone.
C7_Original ==
    fn = "render" =>
        \A k \in 1..Len(rasterizer_calls) :
            LET c == rasterizer_calls[k]
            IN  /\ ~(c.colors_precomp.some /\ c.shs.some)
                /\ IF args.override_color.some
                   THEN c.colors_precomp = args.override_color /\ eval_sh_calls = 0
                   ELSE IF args.convert_SHs_python
                   THEN c.colors_precomp.form = "evaluated"
                   ELSE c.shs.some /\ ~c.colors_precomp.some

\* C8: every scene row of scale, rotation and opacity handed to the rasterizer
\* by render and render_no_train was activated exactly once, and every row of
\* scale, rotation and opacity handed to pc._deformation was not activated.
C8_ActivatedOnceAfterDeformation ==
    /\ \A k \in 1..Len(rasterizer_calls) :
          LET c == rasterizer_calls[k]
          IN  /\ c.scales.some /\ c.rotations.some
              /\ \A i \in 1..Len(c.opacities) :
                    c.opacities[i].src = "scene" =>
                        c.opacities[i].act = 1 /\ c.opacities[i].kind = "opacity"
              /\ \A i \in 1..Len(c.scales.val) :
                    c.scales.val[i].src = "scene" =>
                        c.scales.val[i].act = 1 /\ c.scales.val[i].kind = "scale"
              /\ \A i \in 1..Len(c.rotations.val) :
                    c.rotations.val[i].src = "scene" =>
                        c.rotations.val[i].act = 1 /\ c.rotations.val[i].kind = "rot"
              /\ \A i \in 1..Len(c.opacities) :
                    (c.opacities[i].src = "scene" /\ deformation_calls # <<>>) =>
                        c.opacities[i].def = 1
    /\ \A k \in 1..Len(deformation_calls) :
          LET d == deformation_calls[k]
          IN  /\ \A i \in 1..Len(d.opacity) : d.opacity[i].act = 0
              /\ d.scales.some => \A i \in 1..Len(d.scales.val) : d.scales.val[i].act = 0
              /\ d.rotations.some =>
                    \A i \in 1..Len(d.rotations.val) : d.rotations.val[i].act = 0

C8_Witness ==
    /\ fn = "render"
    /\ Rasterized
    /\ Len(deformation_calls) = 1
    /\ Len(rasterizer_calls[1].opacities) >= 2
    /\ rasterizer_calls[1].opacities[2].def = 1
    /\ rasterizer_calls[1].scales.val[2].act = 1

\* C9: in every rasterizer invocation of render and render_no_train, positions,
\* gradient anchor, colour coefficients, opacity, scale and rotation have the
\* same number of rows.
C9_SameRowCount ==
    \A k \in 1..Len(rasterizer_calls) :
        LET c == rasterizer_calls[k]
            n == Len(c.means3D)
        IN  /\ Len(c.means2D.rows) = n
            /\ Len(c.shs.val) = n
            /\ Len(c.opacities) = n
            /\ c.scales.some /\ Len(c.scales.val) = n
            /\ c.rotations.some /\ Len(c.rotations.val) = n

C9_Witness ==
    /\ fn = "render_no_train" /\ Rasterized
    /\ args.cams_pc.present /\ args.cams_pc.show_cameras /\ args.cams_pc.show_scene
    /\ Len(sel.out.means3D) = 2
    /\ Len(filtered.means3D) = 1
    /\ Len(args.cams_pc.xyzs) = 2
    /\ Len(rasterizer_calls[1].rotations.val) = 3

\* C10 as claimed: the viewspace_points of every Render Output is the gradient
\* anchor the rasterizer was handed, with one row per rasterized primitive, as
\* many as the returned radii and visibility mask.
C10_Original ==
    (fn \in {"render", "render_no_train"} /\ ret.kind = "return") =>
        /\ ret.viewspace_points = rasterizer_calls[1].means2D
        /\ Len(ret.viewspace_points.rows) = Len(rasterizer_calls[1].means3D)
        /\ Len(ret.viewspace_points.rows) = Len(ret.radii)
        /\ Len(ret.viewspace_points.rows) = Len(ret.visibility_filter)

====
